---- MODULE Spec2Model ----
(***************************************************************************)
(* Model of JsonRpcTransport (src/src/transport.ts): one WebSocket, a map  *)
(* of pending requests keyed by request id, per-request timers, and the    *)
(* promise wsReadyPromise that concurrent first callers share.             *)
(*                                                                         *)
(* Calls are numbered in the order they are issued.  A socket and the      *)
(* wsReadyPromise of its open attempt carry the number of the call whose   *)
(* ensureWebSocket constructed them.  Code between two awaits is one       *)
(* atomic step; the continuations of awaits are jobs of the microtask      *)
(* queue mq, run in FIFO order.                                            *)
(***************************************************************************)
EXTENDS Naturals, Integers, Sequences, FiniteSets, TLC

\* Number of calls issued on the transport instance.
MaxCalls == 2
\* Number of resolve/reject invocations recorded per call.
MaxSettle == 2
\* Largest fault code of the fault objects createJsonRpcError is applied to.
MaxCode == 6
\* Largest number of arguments a caller passes to buildRequest.
MaxParams == 2
\* Number of notification subscribers registered.
MaxSubscribers == 2
\* Number of inbound notifications received.
MaxNotifications == 2

Calls == 1..MaxCalls

\* Identifiers an inbound response may carry.
MsgIds == 0..MaxCalls

\* Fault code carried by the error responses the model delivers.
AuthCode == 1
ErrorCodes == {AuthCode}

VARIABLES
    requestIdCounter,   \* transport.ts:42
    ws,                 \* transport.ts:43   0 is null, else the socket
    pending,            \* transport.ts:44   pairs <<request id, call>>
    isClosed,           \* transport.ts:45
    wsReadyPromise,     \* transport.ts:46   0 is null, else the attempt
    timers,             \* calls whose setTimeout handle is armed
    readyState,         \* WebSocket.readyState of every socket
    closeFired,         \* sockets whose close event was dispatched
    promise,            \* state of the promise of every open attempt
    reactions,          \* continuations registered on a pending attempt promise
    mq,                 \* microtask queue
    callCount,          \* number of calls issued so far
    idOf,               \* request.id of every issued call
    pc,                 \* position of every call
    att,                \* the attempt promise a call awaits
    settlements,        \* resolve/reject invocations on the call's promise
    sent,               \* envelopes handed to an open socket, in order
    userClosed,         \* "no", then "once" after close(), then "again"
    obs,                \* inbound messages seen to be dropped
    input,              \* argument of the function a specification applies
    output,             \* what that function returned
    subscribers,        \* notification subscribers, in registration order
    invocations         \* handler invocations, in order

vars == <<requestIdCounter, ws, pending, isClosed, wsReadyPromise, timers,
          readyState, closeFired, promise, reactions, mq, callCount, idOf,
          pc, att, settlements, sent, userClosed,
          obs, input, output, subscribers, invocations>>

\* What only the specifications of single functions and of inbound
\* observation use; the transport's own steps leave it alone.
aux == <<obs, input, output, subscribers, invocations>>

\* The fields of the transport object and what callers observe of it.
transportState == <<requestIdCounter, ws, pending, isClosed, wsReadyPromise,
                    timers, readyState, promise, reactions, mq, callCount,
                    idOf, pc, att, settlements, sent>>

----------------------------------------------------------------------------
\* Errors and results

NetworkError(reason) == [kind |-> "NetworkError", reason |-> reason, code |-> 0]

\* pending.resolve(response): the call gets the response object, which
\* carries the id it arrived with.
Resolved(id) ==
    [kind |-> "resolved", reason |-> "result", code |-> 0, id |-> id]

\* error.data of a fault object that carries none.
NoData == "undefined"

\* The fault object of the error responses the transport model delivers.
WireError(code) == [code |-> code, message |-> "Unauthorized", data |-> NoData]

\* Every fault is a JsonRpcError, code 1 included.
createJsonRpcError_generic(error) ==
    [kind |-> "JsonRpcError", reason |-> error.message, code |-> error.code,
     data |-> error.data]

\* The server's message is dropped from the codes the switch names.
createJsonRpcError_noMessage(error) ==
    IF error.code = 1
    THEN [kind |-> "AuthenticationError", reason |-> "Authentication failed",
          code |-> 0]
    ELSE [kind |-> "JsonRpcError",
          reason |-> IF error.code = 2 THEN "Invalid method"
                     ELSE IF error.code = 3 THEN "Invalid parameters"
                     ELSE error.message,
          code |-> error.code, data |-> error.data]

\* createJsonRpcError(error): code 1 is an AuthenticationError; 2 and 3 are
\* JsonRpcErrors whose message is the server's behind a prefix; every other
\* code is a JsonRpcError with the server's message.  A JsonRpcError keeps
\* error.code and error.data.
createJsonRpcError(error) ==
    IF error.code = 1
    THEN [kind |-> "AuthenticationError",
          reason |-> "Authentication failed: " \o error.message, code |-> 0]
    ELSE [kind |-> "JsonRpcError",
          reason |-> IF error.code = 2
                     THEN "Invalid method: " \o error.message
                     ELSE IF error.code = 3
                     THEN "Invalid parameters: " \o error.message
                     ELSE error.message,
          code |-> error.code, data |-> error.data]

Job(kind, k) == [kind |-> kind, call |-> k]

\* One invocation of the resolve or reject function of call k.
Settle(st, k, o) ==
    [st EXCEPT ![k] = IF Len(@) < MaxSettle THEN Append(@, o) ELSE @]

\* reject(reason) on every call of the set S.
RejectAll(st, S, o) ==
    [k \in Calls |-> IF k \in S /\ Len(st[k]) < MaxSettle
                     THEN Append(st[k], o) ELSE st[k]]

\* Map operations on the pending map.
PendingIds == {p[1] : p \in pending}
PendingCalls == {p[2] : p \in pending}

\* Nothing is deleted.
MapDelete_noop(m, id) == m

\* pending.delete(id), pending.set(id, entry), pending.get(id).
MapDelete(m, id) == {p \in m : p[1] # id}
MapSet(m, id, k) == MapDelete(m, id) \cup {<<id, k>>}
MapGet(m, id) == (CHOOSE p \in m : p[1] = id)[2]

\* WebSocket.close(): a connecting or open socket starts closing.
SocketCloseCall(rs, s) ==
    IF s # 0 /\ rs[s] \in {"CONNECTING", "OPEN"}
    THEN [rs EXCEPT ![s] = "CLOSING"] ELSE rs

\* resolve()/reject() of the attempt promise a: a settled promise ignores it.
SettlePromise(a, outcome) ==
    IF promise[a] = "pending"
    THEN /\ promise' = [promise EXCEPT ![a] = outcome]
         /\ reactions' = [reactions EXCEPT ![a] = <<>>]
    ELSE UNCHANGED <<promise, reactions>>

\* The reactions a settlement of the attempt promise a queues.
ReactionsOf(a) == IF promise[a] = "pending" THEN reactions[a] ELSE <<>>

\* The reason an attempt promise was rejected with.
RejectReason(a) ==
    IF readyState[a] = "NONE" THEN "Failed to construct WebSocket"
    ELSE "WebSocket error event"

\* The four phases of the connection handle, and "closing" for a socket
\* that left OPEN while the transport has not yet torn down.
Phase ==
    IF isClosed THEN "closed"
    ELSE IF ws = 0 THEN "unopened"
    ELSE IF readyState[ws] = "OPEN" THEN "open"
    ELSE IF readyState[ws] = "CONNECTING" THEN "opening"
    ELSE "closing"

\* Sockets constructed so far.
Constructed == {s \in Calls : readyState[s] # "NONE"}

----------------------------------------------------------------------------
\* The transport after its constructor.

\* The constructor opens the connection.
InitTransport_eager ==
    /\ requestIdCounter = 0
    /\ ws = 1
    /\ pending = {}
    /\ isClosed = FALSE
    /\ wsReadyPromise = 0
    /\ timers = {}
    /\ readyState = [s \in Calls |-> IF s = 1 THEN "CONNECTING" ELSE "NONE"]
    /\ closeFired = {}
    /\ promise = [a \in Calls |-> "none"]
    /\ reactions = [a \in Calls |-> <<>>]
    /\ mq = <<>>
    /\ callCount = 0
    /\ idOf = [k \in Calls |-> 0]
    /\ pc = [k \in Calls |-> "idle"]
    /\ att = [k \in Calls |-> 0]
    /\ settlements = [k \in Calls |-> <<>>]
    /\ sent = <<>>
    /\ userClosed = "no"

\* The fields as declared; the constructor body is empty.
InitTransport ==
    /\ requestIdCounter = 0
    /\ ws = 0
    /\ pending = {}
    /\ isClosed = FALSE
    /\ wsReadyPromise = 0
    /\ timers = {}
    /\ readyState = [s \in Calls |-> "NONE"]
    /\ closeFired = {}
    /\ promise = [a \in Calls |-> "none"]
    /\ reactions = [a \in Calls |-> <<>>]
    /\ mq = <<>>
    /\ callCount = 0
    /\ idOf = [k \in Calls |-> 0]
    /\ pc = [k \in Calls |-> "idle"]
    /\ att = [k \in Calls |-> 0]
    /\ settlements = [k \in Calls |-> <<>>]
    /\ sent = <<>>
    /\ userClosed = "no"

\* Nothing is observed, applied or subscribed.
NoObs == [watch |-> "nothing", seen |-> FALSE, changed |-> FALSE]

Init ==
    /\ InitTransport
    /\ obs = NoObs
    /\ input = <<>>
    /\ output = <<>>
    /\ subscribers = <<>>
    /\ invocations = <<>>

----------------------------------------------------------------------------
\* Post-increment: the value before the increment is returned.
generateRequestId_post == requestIdCounter

\* generateRequestId: the value of ++this.requestIdCounter
generateRequestId == requestIdCounter + 1

\* The timers of the rejected entries are not cleared.
cleanupSocket_keepTimers(reason, w, rs) ==
    /\ settlements' = RejectAll(settlements, PendingCalls, NetworkError(reason))
    /\ pc' = [k \in Calls |-> IF k \in PendingCalls THEN "done" ELSE pc[k]]
    /\ timers' = timers
    /\ pending' = {}
    /\ readyState' = SocketCloseCall(rs, w)
    /\ isClosed' = TRUE
    /\ ws' = 0

\* The pending map is not cleared after the reject loop.
cleanupSocket_noClear(reason, w, rs) ==
    /\ settlements' = RejectAll(settlements, PendingCalls, NetworkError(reason))
    /\ pc' = [k \in Calls |-> IF k \in PendingCalls THEN "done" ELSE pc[k]]
    /\ timers' = timers \ PendingCalls
    /\ pending' = pending
    /\ readyState' = SocketCloseCall(rs, w)
    /\ isClosed' = TRUE
    /\ ws' = 0

\* The socket is closed but the reference is kept and isClosed is not set.
cleanupSocket_keepSocket(reason, w, rs) ==
    /\ settlements' = RejectAll(settlements, PendingCalls, NetworkError(reason))
    /\ pc' = [k \in Calls |-> IF k \in PendingCalls THEN "done" ELSE pc[k]]
    /\ timers' = timers \ PendingCalls
    /\ pending' = {}
    /\ readyState' = SocketCloseCall(rs, w)
    /\ UNCHANGED <<isClosed, ws>>

\* cleanupSocket(reason): reject and drop every pending request, close and
\* release the socket, mark the transport closed.
\* w is the value of this.ws, rs the sockets' states, when it is entered.
cleanupSocket(reason, w, rs) ==
    /\ settlements' = RejectAll(settlements, PendingCalls, NetworkError(reason))
    /\ pc' = [k \in Calls |-> IF k \in PendingCalls THEN "done" ELSE pc[k]]
    /\ timers' = timers \ PendingCalls
    /\ pending' = {}
    /\ readyState' = SocketCloseCall(rs, w)
    /\ isClosed' = TRUE
    /\ ws' = 0

\* ensureWebSocket, fast path: the socket is open, the await resumes the
\* caller in a microtask.
CallOpen(k) ==
    /\ ~isClosed
    /\ ws # 0 /\ readyState[ws] = "OPEN"
    /\ mq' = Append(mq, Job("send", k))
    /\ pc' = [pc EXCEPT ![k] = "waiting"]
    /\ UNCHANGED <<ws, pending, isClosed, wsReadyPromise, timers, readyState,
                   closeFired, promise, reactions, att, settlements, sent,
                   userClosed, aux>>

\* The promise executor of ensureWebSocket: construct the socket, which
\* may throw, and await the new promise.
Construct(k) ==
    /\ att' = [att EXCEPT ![k] = k]
    /\ pc' = [pc EXCEPT ![k] = "waiting"]
    /\ wsReadyPromise' = k
    /\ \/ /\ ws' = k
          /\ readyState' = [readyState EXCEPT ![k] = "CONNECTING"]
          /\ isClosed' = FALSE
          /\ promise' = [promise EXCEPT ![k] = "pending"]
          /\ reactions' = [reactions EXCEPT ![k] = <<Job("ensure", k)>>]
          /\ UNCHANGED mq
       \/ /\ ws' = 0
          /\ isClosed' = TRUE
          /\ promise' = [promise EXCEPT ![k] = "rejected"]
          /\ mq' = Append(mq, Job("ensure", k))
          /\ UNCHANGED <<readyState, reactions>>
    /\ UNCHANGED <<pending, timers, closeFired, settlements, sent, userClosed, aux>>

\* The closed check is missing: the call goes on to ensureWebSocket.
CallClosed_skip(k) ==
    /\ isClosed
    /\ IF wsReadyPromise # 0
       THEN /\ att' = [att EXCEPT ![k] = wsReadyPromise]
            /\ mq' = Append(mq, Job("thenable", k))
            /\ pc' = [pc EXCEPT ![k] = "waiting"]
            /\ UNCHANGED <<ws, pending, isClosed, wsReadyPromise, timers,
                           readyState, closeFired, promise, reactions,
                           settlements, sent, userClosed, aux>>
       ELSE Construct(k)

\* The closed check comes after the socket was constructed.
CallClosed_late(k) ==
    /\ isClosed
    /\ ws' = k
    /\ readyState' = [readyState EXCEPT ![k] = "CONNECTING"]
    /\ settlements' = Settle(settlements, k, NetworkError("WebSocket is closed."))
    /\ pc' = [pc EXCEPT ![k] = "done"]
    /\ UNCHANGED <<pending, isClosed, wsReadyPromise, timers, closeFired,
                   promise, reactions, mq, att, sent, userClosed, aux>>

\* sendRequest, first statement: a closed transport rejects the call.
CallClosed(k) ==
    /\ isClosed
    /\ settlements' = Settle(settlements, k, NetworkError("WebSocket is closed."))
    /\ pc' = [pc EXCEPT ![k] = "done"]
    /\ UNCHANGED <<ws, pending, isClosed, wsReadyPromise, timers, readyState,
                   closeFired, promise, reactions, mq, att, sent, userClosed, aux>>

\* The in-flight attempt is not reused: a new socket is constructed.
CallShare_construct(k) ==
    /\ ~isClosed
    /\ ~(ws # 0 /\ readyState[ws] = "OPEN")
    /\ wsReadyPromise # 0
    /\ Construct(k)

\* ensureWebSocket, an attempt is in flight: return the shared promise.
CallShare(k) ==
    /\ ~isClosed
    /\ ~(ws # 0 /\ readyState[ws] = "OPEN")
    /\ wsReadyPromise # 0
    /\ att' = [att EXCEPT ![k] = wsReadyPromise]
    /\ mq' = Append(mq, Job("thenable", k))
    /\ pc' = [pc EXCEPT ![k] = "waiting"]
    /\ UNCHANGED <<ws, pending, isClosed, wsReadyPromise, timers, readyState,
                   closeFired, promise, reactions, settlements, sent,
                   userClosed, aux>>

\* ensureWebSocket, no attempt in flight.
CallConstruct(k) ==
    /\ ~isClosed
    /\ ~(ws # 0 /\ readyState[ws] = "OPEN")
    /\ wsReadyPromise = 0
    /\ Construct(k)

\* call(method, params): buildRequest allocates the id, then sendRequest
\* runs up to its first await.
Call ==
    /\ callCount < MaxCalls
    /\ callCount' = callCount + 1
    /\ requestIdCounter' = requestIdCounter + 1
    /\ LET k == callCount + 1 IN
         /\ idOf' = [idOf EXCEPT ![k] = generateRequestId]
         /\ \/ CallClosed(k)
            \/ CallOpen(k)
            \/ CallShare(k)
            \/ CallConstruct(k)

\* close()
Close ==
    /\ userClosed' = IF userClosed = "no" THEN "once" ELSE "again"
    /\ cleanupSocket("WebSocket connection closed by user via close()",
                     ws, readyState)
    /\ UNCHANGED <<requestIdCounter, wsReadyPromise, closeFired, promise,
                   reactions, mq, callCount, idOf, att, sent, aux>>

----------------------------------------------------------------------------
\* Continuations of awaits

\* The job that chains the promise returned by a sharer's ensureWebSocket
\* to the attempt promise: it registers a reaction on it, which is queued
\* at once when the attempt promise is already settled.
RunThenable(k) ==
    /\ IF promise[att[k]] = "pending"
       THEN /\ reactions' = [reactions EXCEPT ![att[k]] = Append(@, Job("ready", k))]
            /\ mq' = Tail(mq)
       ELSE /\ mq' = Append(Tail(mq), Job("ready", k))
            /\ UNCHANGED reactions
    /\ UNCHANGED <<requestIdCounter, ws, pending, isClosed, wsReadyPromise,
                   timers, readyState, closeFired, promise, callCount, idOf,
                   pc, att, settlements, sent, userClosed, aux>>

\* A sharer's await resumes whether the attempt was fulfilled or rejected.
RunReady_resume(k) ==
    /\ mq' = Append(Tail(mq), Job("send", k))
    /\ UNCHANGED <<requestIdCounter, ws, pending, isClosed, wsReadyPromise,
                   timers, readyState, closeFired, promise, reactions,
                   callCount, idOf, pc, att, settlements, sent, userClosed,
                   aux>>

\* The attempt promise settled: a sharer's await in sendRequest resumes, or
\* throws the attempt's rejection out of call().
RunReady(k) ==
    /\ IF promise[att[k]] = "fulfilled"
       THEN /\ mq' = Append(Tail(mq), Job("send", k))
            /\ UNCHANGED <<pc, settlements>>
       ELSE /\ mq' = Tail(mq)
            /\ settlements' = Settle(settlements, k, NetworkError(RejectReason(att[k])))
            /\ pc' = [pc EXCEPT ![k] = "done"]
    /\ UNCHANGED <<requestIdCounter, ws, pending, isClosed, wsReadyPromise,
                   timers, readyState, closeFired, promise, reactions,
                   callCount, idOf, att, sent, userClosed, aux>>

\* The timer is armed when the connection has opened.
RunEnsure_arm(k) ==
    /\ wsReadyPromise' = 0
    /\ IF promise[att[k]] = "fulfilled"
       THEN /\ mq' = Append(Tail(mq), Job("send", k))
            /\ timers' = timers \cup {k}
            /\ UNCHANGED <<pc, settlements>>
       ELSE /\ mq' = Tail(mq)
            /\ settlements' = Settle(settlements, k, NetworkError(RejectReason(att[k])))
            /\ pc' = [pc EXCEPT ![k] = "done"]
            /\ UNCHANGED timers
    /\ UNCHANGED <<requestIdCounter, ws, pending, isClosed, readyState,
                   closeFired, promise, reactions, callCount, idOf, att,
                   sent, userClosed, aux>>

\* ensureWebSocket after "await this.wsReadyPromise" in the call that
\* started the attempt: the field is reset on both paths.
RunEnsure(k) ==
    /\ wsReadyPromise' = 0
    /\ IF promise[att[k]] = "fulfilled"
       THEN /\ mq' = Append(Tail(mq), Job("send", k))
            /\ UNCHANGED <<pc, settlements>>
       ELSE /\ mq' = Tail(mq)
            /\ settlements' = Settle(settlements, k, NetworkError(RejectReason(att[k])))
            /\ pc' = [pc EXCEPT ![k] = "done"]
    /\ UNCHANGED <<requestIdCounter, ws, pending, isClosed, timers,
                   readyState, closeFired, promise, reactions, callCount,
                   idOf, att, sent, userClosed, aux>>

\* The entry is registered without a timer.
RunSend_noTimer(k) ==
    /\ mq' = Tail(mq)
    /\ \/ /\ ws # 0 /\ readyState[ws] # "CONNECTING"
          /\ pending' = MapSet(pending, idOf[k], k)
          /\ pc' = [pc EXCEPT ![k] = "pending"]
          /\ sent' = IF readyState[ws] = "OPEN"
                     THEN Append(sent, [id |-> idOf[k], call |-> k, sock |-> ws])
                     ELSE sent
          /\ UNCHANGED <<settlements, timers>>
       \/ /\ timers' = timers \ {k}
          /\ pending' = MapDelete(MapSet(pending, idOf[k], k), idOf[k])
          /\ settlements' = Settle(settlements, k, NetworkError("WebSocket send failed"))
          /\ pc' = [pc EXCEPT ![k] = "done"]
          /\ UNCHANGED sent
    /\ UNCHANGED <<requestIdCounter, ws, isClosed, wsReadyPromise, readyState,
                   closeFired, promise, reactions, callCount, idOf, att,
                   userClosed, aux>>

\* A failed send leaves the timer armed.
RunSend_leaveTimer(k) ==
    /\ mq' = Tail(mq)
    /\ \/ /\ ws # 0 /\ readyState[ws] # "CONNECTING"
          /\ timers' = timers \cup {k}
          /\ pending' = MapSet(pending, idOf[k], k)
          /\ pc' = [pc EXCEPT ![k] = "pending"]
          /\ sent' = IF readyState[ws] = "OPEN"
                     THEN Append(sent, [id |-> idOf[k], call |-> k, sock |-> ws])
                     ELSE sent
          /\ UNCHANGED settlements
       \/ /\ timers' = timers \cup {k}
          /\ pending' = MapDelete(MapSet(pending, idOf[k], k), idOf[k])
          /\ settlements' = Settle(settlements, k, NetworkError("WebSocket send failed"))
          /\ pc' = [pc EXCEPT ![k] = "done"]
          /\ UNCHANGED sent
    /\ UNCHANGED <<requestIdCounter, ws, isClosed, wsReadyPromise, readyState,
                   closeFired, promise, reactions, callCount, idOf, att,
                   userClosed, aux>>

\* sendRequest after "await this.ensureWebSocket()": arm the timer,
\* register the pending entry, send.  send throws when this.ws is null or
\* still connecting, and may throw in any state (JSON.stringify is inside
\* the try); a socket that is closing or closed either throws or discards
\* the data silently, depending on the runtime.
RunSend(k) ==
    /\ mq' = Tail(mq)
    /\ \/ /\ ws # 0 /\ readyState[ws] # "CONNECTING"
          /\ timers' = timers \cup {k}
          /\ pending' = MapSet(pending, idOf[k], k)
          /\ pc' = [pc EXCEPT ![k] = "pending"]
          /\ sent' = IF readyState[ws] = "OPEN"
                     THEN Append(sent, [id |-> idOf[k], call |-> k, sock |-> ws])
                     ELSE sent
          /\ UNCHANGED settlements
       \/ /\ timers' = (timers \cup {k}) \ {k}
          /\ pending' = MapDelete(MapSet(pending, idOf[k], k), idOf[k])
          /\ settlements' = Settle(settlements, k, NetworkError("WebSocket send failed"))
          /\ pc' = [pc EXCEPT ![k] = "done"]
          /\ UNCHANGED sent
    /\ UNCHANGED <<requestIdCounter, ws, isClosed, wsReadyPromise, readyState,
                   closeFired, promise, reactions, callCount, idOf, att,
                   userClosed, aux>>

\* Run the job at the head of the microtask queue.
RunMicrotask ==
    /\ mq # <<>>
    /\ LET t == Head(mq) IN
         \/ t.kind = "thenable" /\ RunThenable(t.call)
         \/ t.kind = "ready" /\ RunReady(t.call)
         \/ t.kind = "ensure" /\ RunEnsure(t.call)
         \/ t.kind = "send" /\ RunSend(t.call)

\* The call is rejected but its entry stays in the pending map.
Timeout_keepEntry(k) ==
    /\ k \in timers
    /\ timers' = timers \ {k}
    /\ settlements' = Settle(settlements, k, NetworkError("Request timeout"))
    /\ pc' = [pc EXCEPT ![k] = "done"]
    /\ UNCHANGED <<requestIdCounter, ws, pending, isClosed, wsReadyPromise,
                   readyState, closeFired, promise, reactions, mq, callCount,
                   idOf, att, sent, userClosed, aux>>

\* The callback cancels every timer.
Timeout_cancelAll(k) ==
    /\ k \in timers
    /\ timers' = {}
    /\ pending' = MapDelete(pending, idOf[k])
    /\ settlements' = Settle(settlements, k, NetworkError("Request timeout"))
    /\ pc' = [pc EXCEPT ![k] = "done"]
    /\ UNCHANGED <<requestIdCounter, ws, isClosed, wsReadyPromise, readyState,
                   closeFired, promise, reactions, mq, callCount, idOf, att,
                   sent, userClosed, aux>>

\* The envelope is sent again before the call is rejected.
Timeout_resend(k) ==
    /\ k \in timers
    /\ timers' = timers \ {k}
    /\ pending' = MapDelete(pending, idOf[k])
    /\ settlements' = Settle(settlements, k, NetworkError("Request timeout"))
    /\ pc' = [pc EXCEPT ![k] = "done"]
    /\ sent' = IF ws # 0 /\ readyState[ws] = "OPEN"
               THEN Append(sent, [id |-> idOf[k], call |-> k, sock |-> ws])
               ELSE sent
    /\ UNCHANGED <<requestIdCounter, ws, isClosed, wsReadyPromise, readyState,
                   closeFired, promise, reactions, mq, callCount, idOf, att,
                   userClosed, aux>>

\* The setTimeout callback of sendRequest.
Timeout(k) ==
    /\ k \in timers
    /\ timers' = timers \ {k}
    /\ pending' = MapDelete(pending, idOf[k])
    /\ settlements' = Settle(settlements, k, NetworkError("Request timeout"))
    /\ pc' = [pc EXCEPT ![k] = "done"]
    /\ UNCHANGED <<requestIdCounter, ws, isClosed, wsReadyPromise, readyState,
                   closeFired, promise, reactions, mq, callCount, idOf, att,
                   sent, userClosed, aux>>

----------------------------------------------------------------------------
\* Socket events

\* ws.onopen
SocketOpen(s) ==
    /\ readyState[s] = "CONNECTING"
    /\ s \notin closeFired
    /\ readyState' = [readyState EXCEPT ![s] = "OPEN"]
    /\ mq' = mq \o ReactionsOf(s)
    /\ SettlePromise(s, "fulfilled")
    /\ UNCHANGED <<requestIdCounter, ws, pending, isClosed, wsReadyPromise,
                   timers, closeFired, callCount, idOf, pc, att, settlements,
                   sent, userClosed, aux>>

\* The peer starts the closing handshake: readyState leaves OPEN before
\* any event is dispatched.
RemoteClosing(s) ==
    /\ readyState[s] = "OPEN"
    /\ readyState' = [readyState EXCEPT ![s] = "CLOSING"]
    /\ UNCHANGED <<requestIdCounter, ws, pending, isClosed, wsReadyPromise,
                   timers, closeFired, promise, reactions, mq, callCount,
                   idOf, pc, att, settlements, sent, userClosed, aux>>

\* ws.onerror: the connection failed.
SocketError(s) ==
    /\ readyState[s] \in {"CONNECTING", "OPEN", "CLOSING"}
    /\ s \notin closeFired
    /\ cleanupSocket("WebSocket error event", ws,
                     [readyState EXCEPT ![s] = "CLOSED"])
    /\ mq' = mq \o ReactionsOf(s)
    /\ SettlePromise(s, "rejected")
    /\ UNCHANGED <<requestIdCounter, wsReadyPromise, closeFired, callCount,
                   idOf, att, sent, userClosed, aux>>

\* The close handler marks the transport closed without tearing down.
SocketClose_noCleanup(s) ==
    /\ readyState[s] # "NONE"
    /\ s \notin closeFired
    /\ closeFired' = closeFired \cup {s}
    /\ readyState' = [readyState EXCEPT ![s] = "CLOSED"]
    /\ isClosed' = TRUE
    /\ ws' = 0
    /\ UNCHANGED <<requestIdCounter, pending, wsReadyPromise, timers, promise,
                   reactions, mq, callCount, idOf, pc, att, settlements, sent,
                   userClosed, aux>>

\* ws.onclose
SocketClose(s) ==
    /\ readyState[s] # "NONE"
    /\ s \notin closeFired
    /\ closeFired' = closeFired \cup {s}
    /\ cleanupSocket("WebSocket closed", 0,
                     [readyState EXCEPT ![s] = "CLOSED"])
    /\ UNCHANGED <<requestIdCounter, wsReadyPromise, promise, reactions, mq,
                   callCount, idOf, att, sent, userClosed, aux>>

\* Inbound messages: malformed ones, and responses with a result or a fault.
Messages ==
    [valid : BOOLEAN, id : MsgIds, code : {0} \cup ErrorCodes]

\* The entry is settled but neither removed nor is its timer cleared.
handleWsMessage_keep(m) ==
    IF m.valid /\ m.id \in PendingIds
    THEN LET k == MapGet(pending, m.id) IN
         /\ settlements' = Settle(settlements, k,
                                  IF m.code # 0 THEN createJsonRpcError(WireError(m.code))
                                  ELSE Resolved(m.id))
         /\ pc' = [pc EXCEPT ![k] = "done"]
         /\ UNCHANGED <<timers, pending>>
    ELSE UNCHANGED <<timers, pending, settlements, pc>>

\* The response settles the oldest pending call, whatever id it carries.
handleWsMessage_fifo(m) ==
    IF m.valid /\ m.id \in PendingIds
    THEN LET k == CHOOSE j \in PendingCalls : \A i \in PendingCalls : j <= i IN
         /\ timers' = timers \ {k}
         /\ pending' = {p \in pending : p[2] # k}
         /\ settlements' = Settle(settlements, k,
                                  IF m.code # 0 THEN createJsonRpcError(WireError(m.code))
                                  ELSE Resolved(m.id))
         /\ pc' = [pc EXCEPT ![k] = "done"]
    ELSE UNCHANGED <<timers, pending, settlements, pc>>

\* A response whose id is unknown goes to the oldest pending call.
handleWsMessage_fallback(m) ==
    IF m.valid /\ pending # {}
    THEN LET k == IF m.id \in PendingIds THEN MapGet(pending, m.id)
                  ELSE CHOOSE j \in PendingCalls : \A i \in PendingCalls : j <= i IN
         /\ timers' = timers \ {k}
         /\ pending' = {p \in pending : p[2] # k}
         /\ settlements' = Settle(settlements, k,
                                  IF m.code # 0 THEN createJsonRpcError(WireError(m.code))
                                  ELSE Resolved(m.id))
         /\ pc' = [pc EXCEPT ![k] = "done"]
    ELSE UNCHANGED <<timers, pending, settlements, pc>>

\* handleWsMessage(data)
handleWsMessage(m) ==
    IF m.valid /\ m.id \in PendingIds
    THEN LET k == MapGet(pending, m.id) IN
         /\ timers' = timers \ {k}
         /\ pending' = MapDelete(pending, m.id)
         /\ settlements' = Settle(settlements, k,
                                  IF m.code # 0 THEN createJsonRpcError(WireError(m.code))
                                  ELSE Resolved(m.id))
         /\ pc' = [pc EXCEPT ![k] = "done"]
    ELSE UNCHANGED <<timers, pending, settlements, pc>>

\* ws.onmessage
SocketMessage(s, m) ==
    /\ readyState[s] \in {"OPEN", "CLOSING"}
    /\ s \notin closeFired
    /\ handleWsMessage(m)
    /\ UNCHANGED <<requestIdCounter, ws, isClosed, wsReadyPromise, readyState,
                   closeFired, promise, reactions, mq, callCount, idOf, att,
                   sent, userClosed, aux>>

----------------------------------------------------------------------------
\* Inbound data before it is parsed and validated

\* A response object with version tag "2.0", a numeric id and a body.
WellFormed(id, body) ==
    [text |-> "object", jsonrpc |-> "2.0", idType |-> "number", id |-> id,
     body |-> body]

\* The data a socket delivers: text is what JSON.parse makes of it (an
\* object, a non-object such as null, or a SyntaxError for garbage),
\* jsonrpc the version tag, idType the typeof of the id, body whether a
\* result, an error or neither is present.  Beside the well-formed
\* responses, every message with one defect, carrying the id of the first
\* call.
RawMessages ==
    {WellFormed(i, b) : i \in MsgIds, b \in {"result", "error"}}
    \cup {[WellFormed(1, "result") EXCEPT !.text = t] : t \in {"garbage", "null"}}
    \cup {[WellFormed(1, "result") EXCEPT !.jsonrpc = "1.0"]}
    \cup {[WellFormed(1, "result") EXCEPT !.idType = ty] :
            ty \in {"string", "undefined"}}
    \cup {[WellFormed(1, "result") EXCEPT !.body = "none"]}

\* The version tag is not looked at.
isValidJsonRpcResponse_noTag(raw) ==
    /\ raw.text = "object"
    /\ raw.idType \in {"string", "number"}
    /\ raw.body # "none"

\* isValidJsonRpcResponse(obj)
isValidJsonRpcResponse(raw) ==
    /\ raw.text = "object"
    /\ raw.jsonrpc = "2.0"
    /\ raw.idType \in {"string", "number"}
    /\ raw.body # "none"

\* The key a string id is looked up with: the keys of the pending map are
\* the numbers generateRequestId returned, and no string equals a number.
StringKey == 0 - 1

\* handleWsMessage up to the lookup: JSON.parse, whose SyntaxError returns,
\* then the shape test, then response.id and response.error.
Parsed(raw) ==
    [valid |-> raw.text # "garbage" /\ isValidJsonRpcResponse(raw),
     id |-> IF raw.idType = "number" THEN raw.id ELSE StringKey,
     code |-> IF raw.body = "error" THEN AuthCode ELSE 0]

\* The messages of the kind obs watches: a response to a call that timed
\* out; a response whose id is not a key of the pending map; data that is
\* not JSON for an object with the version tag, an id and a body.
Dropped(raw) ==
    \/ /\ obs.watch = "late"
       /\ Parsed(raw).valid
       /\ \E k \in Calls : /\ idOf[k] = Parsed(raw).id
                            /\ settlements[k] = <<NetworkError("Request timeout")>>
    \/ /\ obs.watch = "unmatched"
       /\ Parsed(raw).valid /\ Parsed(raw).id \notin PendingIds
    \/ /\ obs.watch = "malformed"
       /\ \/ raw.text # "object"
          \/ raw.jsonrpc # "2.0"
          \/ raw.idType \notin {"string", "number"}
          \/ raw.body = "none"

\* ws.onmessage with the data as received.  obs.seen records that a message
\* of the watched kind was handled while a call was pending, obs.changed
\* that handling one changed a field of the transport or settled a call.
SocketData(s, raw) ==
    /\ readyState[s] \in {"OPEN", "CLOSING"}
    /\ s \notin closeFired
    /\ handleWsMessage(Parsed(raw))
    /\ UNCHANGED <<requestIdCounter, ws, isClosed, wsReadyPromise, readyState,
                   closeFired, promise, reactions, mq, callCount, idOf, att,
                   sent, userClosed, input, output, subscribers, invocations>>
    /\ obs' = [obs EXCEPT
                 !.seen = @ \/ (Dropped(raw) /\ pending # {}),
                 !.changed = @ \/ (Dropped(raw)
                                     /\ <<transportState, closeFired, userClosed>>'
                                          # <<transportState, closeFired, userClosed>>)]

----------------------------------------------------------------------------
Next ==
    \/ Call
    \/ Close
    \/ RunMicrotask
    \/ \E k \in Calls : Timeout(k)
    \/ \E s \in Calls : SocketOpen(s)
    \/ \E s \in Calls : RemoteClosing(s)
    \/ \E s \in Calls : SocketError(s)
    \/ \E s \in Calls : SocketClose(s)
    \/ \E s \in Calls : \E m \in Messages : SocketMessage(s, m)

Spec == Init /\ [][Next]_vars

\* The timers fire and the microtask queue is drained.
LiveSpec ==
    /\ Spec
    /\ WF_vars(RunMicrotask)
    /\ \A k \in Calls : WF_vars(Timeout(k))

\* The transport with its inbound data as received, watching for one kind
\* of dropped message.
InboundInit(kind) ==
    /\ InitTransport
    /\ obs = [watch |-> kind, seen |-> FALSE, changed |-> FALSE]
    /\ input = <<>>
    /\ output = <<>>
    /\ subscribers = <<>>
    /\ invocations = <<>>

InboundNext ==
    \/ Call
    \/ Close
    \/ RunMicrotask
    \/ \E k \in Calls : Timeout(k)
    \/ \E s \in Calls : SocketOpen(s)
    \/ \E s \in Calls : RemoteClosing(s)
    \/ \E s \in Calls : SocketError(s)
    \/ \E s \in Calls : SocketClose(s)
    \/ \E s \in Calls : \E raw \in RawMessages : SocketData(s, raw)

LateSpec == InboundInit("late") /\ [][InboundNext]_vars

UnmatchedSpec == InboundInit("unmatched") /\ [][InboundNext]_vars

MalformedSpec == InboundInit("malformed") /\ [][InboundNext]_vars

----------------------------------------------------------------------------
\* The error objects a teardown hands to the callers

Aria2Errors == {"NetworkError", "AuthenticationError", "JsonRpcError",
                "ValidationError", "ConfigurationError"}

\* No error object.
NoObject == [class |-> "none", site |-> "none", rejected |-> {}]

\* The object of one evaluation of "new NetworkError(...)" at a site of
\* the code: a teardown evaluates it once, before cleanupSocket runs its
\* loop over the calls S it rejects.
ErrorObject(site, S) == [class |-> "NetworkError", site |-> site, rejected |-> S]

\* The catch of call(): an Aria2Error is rethrown as it is, anything else
\* is wrapped in a new NetworkError.
Rethrown(k, e) ==
    IF e.class \in Aria2Errors THEN e ELSE ErrorObject("call", {k})

\* cleanupSocket(reason) as the callers see it: pending.reject(reason) is
\* given the one object for every entry, and call() rethrows it.
Received(site) ==
    [k \in Calls |-> IF k \in PendingCalls
                     THEN Rethrown(k, ErrorObject(site, PendingCalls))
                     ELSE output[k]]

TeardownInit ==
    /\ InitTransport
    /\ obs = NoObs
    /\ input = <<>>
    /\ output = [k \in Calls |-> NoObject]
    /\ subscribers = <<>>
    /\ invocations = <<>>

\* close(), with the object its callers are rejected with.
CloseReceived ==
    /\ userClosed' = IF userClosed = "no" THEN "once" ELSE "again"
    /\ cleanupSocket("WebSocket connection closed by user via close()",
                     ws, readyState)
    /\ output' = Received("close")
    /\ UNCHANGED <<requestIdCounter, wsReadyPromise, closeFired, promise,
                   reactions, mq, callCount, idOf, att, sent, obs, input,
                   subscribers, invocations>>

\* ws.onerror, with the object the pending callers are rejected with.
SocketErrorReceived(s) ==
    /\ readyState[s] \in {"CONNECTING", "OPEN", "CLOSING"}
    /\ s \notin closeFired
    /\ cleanupSocket("WebSocket error event", ws,
                     [readyState EXCEPT ![s] = "CLOSED"])
    /\ mq' = mq \o ReactionsOf(s)
    /\ SettlePromise(s, "rejected")
    /\ output' = Received("onerror")
    /\ UNCHANGED <<requestIdCounter, wsReadyPromise, closeFired, callCount,
                   idOf, att, sent, userClosed, obs, input, subscribers,
                   invocations>>

\* ws.onclose, with the object the pending callers are rejected with.
SocketCloseReceived(s) ==
    /\ readyState[s] # "NONE"
    /\ s \notin closeFired
    /\ closeFired' = closeFired \cup {s}
    /\ cleanupSocket("WebSocket closed", 0,
                     [readyState EXCEPT ![s] = "CLOSED"])
    /\ output' = Received("onclose")
    /\ UNCHANGED <<requestIdCounter, wsReadyPromise, promise, reactions, mq,
                   callCount, idOf, att, sent, userClosed, obs, input,
                   subscribers, invocations>>

TeardownNext ==
    \/ Call
    \/ CloseReceived
    \/ RunMicrotask
    \/ \E k \in Calls : Timeout(k)
    \/ \E s \in Calls : SocketOpen(s)
    \/ \E s \in Calls : RemoteClosing(s)
    \/ \E s \in Calls : SocketErrorReceived(s)
    \/ \E s \in Calls : SocketCloseReceived(s)
    \/ \E s \in Calls : \E m \in Messages : SocketMessage(s, m)

TeardownSpec == TeardownInit /\ [][TeardownNext]_vars

----------------------------------------------------------------------------
\* validateConfig and the construction of a client

MaxTimeout == 2

\* A field the caller left out.
Undefined == [undefined |-> TRUE]

\* The text of a baseUrl, by the parts new URL(...) looks at: the scheme
\* before the colon ("" when the text has none) and the host.
UrlTexts == [scheme : {"", "ws", "wss", "http"}, host : {"", "localhost:6800"}]

\* new URL(text) does not throw: the text has a scheme and, as the schemes
\* here are special ones, a host.
Parseable(url) == url.scheme # "" /\ url.host # ""

\* A timeout as the number num/den.
Timeouts == [num : (0 - 1)..MaxTimeout, den : {1, 2}]
IsInteger(t) == t.num % t.den = 0

Configs == [baseUrl : UrlTexts \cup {Undefined}, timeout : Timeouts \cup {Undefined}]

DEFAULT_CONFIG ==
    [baseUrl |-> [scheme |-> "http", host |-> "localhost:6800"],
     timeout |-> [num |-> 10000, den |-> 1]]

ConfigurationError(reason) ==
    [kind |-> "thrown", class |-> "ConfigurationError", reason |-> reason]

\* The timeout is only required to be positive.
validateConfig_positive(config) ==
    IF config.baseUrl # Undefined /\ ~Parseable(config.baseUrl)
    THEN ConfigurationError("Invalid baseUrl")
    ELSE IF config.timeout # Undefined /\ config.timeout.num <= 0
    THEN ConfigurationError("Timeout must be a positive integer")
    ELSE [kind |-> "config",
          baseUrl |-> IF config.baseUrl = Undefined
                      THEN DEFAULT_CONFIG.baseUrl ELSE config.baseUrl,
          timeout |-> IF config.timeout = Undefined
                      THEN DEFAULT_CONFIG.timeout ELSE config.timeout]

\* validateConfig(config): the defaults overlaid with the caller's fields,
\* or the ConfigurationError it throws. A baseUrl is only required to parse.
validateConfig(config) ==
    IF config.baseUrl # Undefined /\ ~Parseable(config.baseUrl)
    THEN ConfigurationError("Invalid baseUrl")
    ELSE IF config.timeout # Undefined
            /\ (~IsInteger(config.timeout) \/ config.timeout.num <= 0)
    THEN ConfigurationError("Timeout must be a positive integer")
    ELSE [kind |-> "config",
          baseUrl |-> IF config.baseUrl = Undefined
                      THEN DEFAULT_CONFIG.baseUrl ELSE config.baseUrl,
          timeout |-> IF config.timeout = Undefined
                      THEN DEFAULT_CONFIG.timeout ELSE config.timeout]

ConfigInit ==
    /\ InitTransport
    /\ obs = NoObs
    /\ input \in Configs
    /\ output = <<>>
    /\ subscribers = <<>>
    /\ invocations = <<>>

\* new Aria2(config): validateConfig runs first; when it returns, the
\* transport is created with its fields at their initial values.
ConstructClient ==
    /\ output = <<>>
    /\ output' = <<validateConfig(input)>>
    /\ requestIdCounter' = 0
    /\ ws' = 0
    /\ pending' = {}
    /\ isClosed' = FALSE
    /\ wsReadyPromise' = 0
    /\ UNCHANGED <<timers, readyState, closeFired, promise, reactions, mq,
                   callCount, idOf, pc, att, settlements, sent, userClosed,
                   obs, input, subscribers, invocations>>

ConfigSpec == ConfigInit /\ [][ConstructClient]_vars

----------------------------------------------------------------------------
\* createJsonRpcError applied to fault objects

FaultCodes == (0 - 1)..MaxCode

FaultObjects ==
    [code : FaultCodes,
     message : {"", "Unauthorized", "Method not found"},
     data : {NoData, "additional error data", "[]"}]

FaultInit ==
    /\ InitTransport
    /\ obs = NoObs
    /\ input \in FaultObjects
    /\ output = <<>>
    /\ subscribers = <<>>
    /\ invocations = <<>>

ApplyCreateJsonRpcError ==
    /\ output = <<>>
    /\ output' = <<createJsonRpcError(input)>>
    /\ UNCHANGED <<transportState, closeFired, userClosed, obs, input,
                   subscribers, invocations>>

FaultSpec == FaultInit /\ [][ApplyCreateJsonRpcError]_vars

----------------------------------------------------------------------------
\* buildRequest applied to a configuration and the caller's arguments

\* config.secret: <<>> is undefined, else the one string.
Secrets == {<<>>, <<"">>, <<"s3cr3t">>, <<"x">>}

\* What a caller passes: a method and up to MaxParams arguments, which may
\* look like a token.
Methods == {"aria2.addUri", "aria2.getVersion"}
Args == {"uri", "token:s3cr3t"}
ParamLists == UNION {[1..n -> Args] : n \in 0..MaxParams}

\* The token is put behind the caller's arguments.
buildRequest_append(secret, method, params) ==
    [jsonrpc |-> "2.0",
     method |-> method,
     params |-> IF secret # <<>> /\ secret[1] # ""
                THEN params \o <<"token:" \o secret[1]>>
                ELSE params,
     id |-> generateRequestId]

\* buildRequest(method, params): config.secret is tested for truthiness,
\* which undefined and the empty string fail.
buildRequest(secret, method, params) ==
    [jsonrpc |-> "2.0",
     method |-> method,
     params |-> IF secret # <<>> /\ secret[1] # ""
                THEN <<"token:" \o secret[1]>> \o params
                ELSE params,
     id |-> generateRequestId]

EnvelopeInit ==
    /\ InitTransport
    /\ obs = NoObs
    /\ input \in [secret : Secrets, method : Methods, params : ParamLists]
    /\ output = <<>>
    /\ subscribers = <<>>
    /\ invocations = <<>>

ApplyBuildRequest ==
    /\ output = <<>>
    /\ output' = <<buildRequest(input.secret, input.method, input.params)>>
    /\ requestIdCounter' = generateRequestId
    /\ UNCHANGED <<ws, pending, isClosed, wsReadyPromise, timers, readyState,
                   closeFired, promise, reactions, mq, callCount, idOf, pc,
                   att, settlements, sent, userClosed, obs, input,
                   subscribers, invocations>>

EnvelopeSpec == EnvelopeInit /\ [][ApplyBuildRequest]_vars

----------------------------------------------------------------------------
\* The method groups above the transport

\* transport.call(method, params) as a method group sees it when it
\* invokes it: the call is counted and its envelope is built with a new
\* identifier.
TransportCall(method, params) ==
    /\ callCount' = callCount + 1
    /\ requestIdCounter' = generateRequestId
    /\ sent' = Append(sent, buildRequest(<<>>, method, params))
    /\ UNCHANGED <<ws, pending, isClosed, wsReadyPromise, timers, readyState,
                   closeFired, promise, reactions, mq, idOf, pc, att,
                   settlements, userClosed>>

----------------------------------------------------------------------------
\* system.multicall

MaxBatch == 2

\* What a caller bundles: up to MaxBatch entries {method, params}, where
\* params may be left out and the method may be system.multicall itself.
MulticallMethods == Methods \cup {"system.multicall"}
MulticallEntries ==
    [method : MulticallMethods, params : {<<>>, <<"2089b05ecca3d829">>}]
        \cup [method : MulticallMethods]
MethodLists == UNION {[1..n -> MulticallEntries] : n \in 0..MaxBatch}

\* A slot of the wire reply: a one-element array around the result, or a
\* fault object.
Fault == [isArray |-> FALSE, faultCode |-> 1, faultString |-> "Nope"]
Slots == {[isArray |-> TRUE, items |-> <<v>>] : v \in {"OK", "2089b05ecca3d829"}}
             \cup {Fault}

\* What transport.call settles with: the reply's result, with one slot per
\* bundled entry, or a rejection with one of the transport's errors.
WireReplies(n) ==
    [ok : {TRUE}, result : [1..n -> Slots]] \cup {[ok |-> FALSE, result |-> <<>>]}

\* methods.map(x => ({methodName, params})).
callParams(methods) ==
    [i \in 1..Len(methods) |->
        [methodName |-> methods[i].method,
         params |-> IF "params" \in DOMAIN methods[i]
                    THEN methods[i].params ELSE <<>>]]

\* The entry is a one-element array.
Unwrappable(entry) == entry.isArray /\ Len(entry.items) = 1

\* multicall(methods) after transport.call has settled with wire: a
\* rejection of the transport propagates; otherwise every slot is unwrapped,
\* and a slot that is not a one-element array throws a plain Error out of
\* the map, which rejects the whole multicall.
multicall(methods, wire) ==
    IF ~wire.ok
    THEN [kind |-> "rejected", class |-> "NetworkError", value |-> <<>>]
    ELSE IF \E i \in 1..Len(wire.result) : ~Unwrappable(wire.result[i])
    THEN [kind |-> "rejected", class |-> "Error", value |-> <<>>]
    ELSE [kind |-> "resolved", class |-> "none",
          value |-> [i \in 1..Len(wire.result) |->
                        [value |-> wire.result[i].items[1]]]]

MulticallInit ==
    /\ InitTransport
    /\ obs = NoObs
    /\ \E n \in 0..MaxBatch :
          input \in [methods : [1..n -> MulticallEntries], wire : WireReplies(n)]
    /\ output = <<>>
    /\ subscribers = <<>>
    /\ invocations = <<>>

\* multicall up to its await: transport.call("system.multicall",
\* [callParams]) is invoked whatever the length of the list, and builds its
\* envelope with a new identifier.
MulticallCall ==
    /\ callCount = 0
    /\ TransportCall("system.multicall", <<callParams(input.methods)>>)
    /\ UNCHANGED aux

\* multicall from the settlement of transport.call to its own.
MulticallReturn ==
    /\ callCount = 1
    /\ output = <<>>
    /\ output' = <<multicall(input.methods, input.wire)>>
    /\ UNCHANGED <<requestIdCounter, ws, pending, isClosed, wsReadyPromise,
                   timers, readyState, closeFired, promise, reactions, mq,
                   callCount, idOf, pc, att, settlements, sent, userClosed,
                   obs, input, subscribers, invocations>>

MulticallNext == MulticallCall \/ MulticallReturn

MulticallSpec == MulticallInit /\ [][MulticallNext]_vars

----------------------------------------------------------------------------
\* The argument checks of the download methods

GidLength == 16

\* The text of a GID by what validateGid looks at: its length and the
\* classes of the characters in it (hexadecimal digits, white space,
\* anything else); or a value that is no string.
CharClasses == {"hex", "space", "other"}
GidTexts ==
    {[isString |-> FALSE]} \cup
    {t \in [isString : {TRUE},
            length : {0, 1, GidLength, GidLength + 1},
            classes : SUBSET CharClasses] :
        /\ (t.length = 0) <=> (t.classes = {})
        /\ Cardinality(t.classes) <= t.length}

\* The list of URIs: up to MaxParams texts, or a value that is no array.
UriLists ==
    {[isArray |-> FALSE]} \cup
    [isArray : {TRUE}, items : UNION {[1..n -> UrlTexts] : n \in 0..MaxParams}]

GidMethods == {"aria2.pause", "aria2.unpause", "aria2.remove",
               "aria2.forceRemove", "aria2.removeDownloadResult"}

Invocations ==
    [method : {"aria2.addUri"}, arg : UriLists]
        \cup [method : GidMethods, arg : GidTexts]

ValidationError(reason) ==
    [kind |-> "rejected", class |-> "ValidationError", reason |-> reason]

\* uri.trim().length === 0.
Blank(url) == url.scheme = "" /\ url.host = ""

\* Only an empty list is refused.
validateUris_nonEmpty(uris) ==
    IF ~uris.isArray \/ Len(uris.items) = 0
    THEN <<ValidationError("URIs must be a non-empty array")>>
    ELSE <<>>

\* validateUris(uris): the error it throws, if any. The first text that is
\* blank or does not parse decides.
validateUris(uris) ==
    IF ~uris.isArray \/ Len(uris.items) = 0
    THEN <<ValidationError("URIs must be a non-empty array")>>
    ELSE LET bad == {i \in 1..Len(uris.items) :
                        Blank(uris.items[i]) \/ ~Parseable(uris.items[i])}
         IN  IF bad = {} THEN <<>>
             ELSE LET i == CHOOSE j \in bad : \A l \in bad : j <= l
                  IN  IF Blank(uris.items[i])
                      THEN <<ValidationError("All URIs must be non-empty strings")>>
                      ELSE <<ValidationError("Invalid URI format")>>

\* Only a GID that is empty or white space is refused.
validateGid_nonEmpty(gid) ==
    IF ~gid.isString \/ gid.classes \subseteq {"space"}
    THEN <<ValidationError("GID must be a non-empty string")>>
    ELSE <<>>

\* validateGid(gid): the error it throws, if any.
validateGid(gid) ==
    IF ~gid.isString \/ gid.classes \subseteq {"space"}
    THEN <<ValidationError("GID must be a non-empty string")>>
    ELSE IF ~(gid.length = GidLength /\ gid.classes \subseteq {"hex"})
    THEN <<ValidationError("Invalid GID format")>>
    ELSE <<>>

FacadeInit ==
    /\ InitTransport
    /\ obs = NoObs
    /\ input \in Invocations
    /\ output = <<>>
    /\ subscribers = <<>>
    /\ invocations = <<>>

\* addUri, pause, unpause, remove, forceRemove, removeDownloadResult up to
\* their await: the argument is checked first, and transport.call is only
\* reached when the check has not thrown.
FacadeInvoke ==
    /\ callCount = 0
    /\ output = <<>>
    /\ LET thrown == IF input.method = "aria2.addUri"
                     THEN validateUris(input.arg)
                     ELSE validateGid(input.arg)
       IN  IF thrown # <<>>
           THEN /\ output' = thrown
                /\ UNCHANGED <<requestIdCounter, ws, pending, isClosed,
                               wsReadyPromise, timers, readyState,
                               closeFired, promise, reactions, mq, callCount,
                               idOf, pc, att, settlements, sent, userClosed>>
           ELSE /\ TransportCall(input.method, <<input.arg>>)
                /\ UNCHANGED output
    /\ UNCHANGED <<obs, input, subscribers, invocations>>

FacadeSpec == FacadeInit /\ [][FacadeInvoke]_vars

----------------------------------------------------------------------------
\* Notification subscribers

\* The push-event names a subscriber registers for, the methods inbound
\* notifications carry (one of them of no known event) and their payloads.
EventNames == {"onDownloadStart", "onDownloadPause"}
NotificationMethods ==
    {"aria2.onDownloadStart", "aria2.onDownloadPause", "aria2.onUnknown"}
Payloads == {"xyz789", "second"}

\* The event a notification method names, "" when it names none.
EventOf(method) ==
    IF \E n \in EventNames : "aria2." \o n = method
    THEN CHOOSE n \in EventNames : "aria2." \o n = method
    ELSE ""

NotifyInit ==
    /\ InitTransport
    /\ obs = NoObs
    /\ input = <<>>
    /\ output = <<>>
    /\ subscribers = <<>>
    /\ invocations = <<>>

\* onNotification(eventName, handler): the subscriber is added behind the
\* registered ones; its number stands for the closure that is returned.
\* since is the number of notifications received before it registered.
onNotification(name) ==
    /\ Len(subscribers) < MaxSubscribers
    /\ subscribers' = Append(subscribers,
                             [name |-> name, active |-> TRUE,
                              since |-> Len(invocations), until |-> 0])
    /\ UNCHANGED <<transportState, closeFired, userClosed, obs, input,
                   output, invocations>>

\* The closure deregisters every subscriber of the same event name.
unsubscribe_byName(i) ==
    /\ i \in DOMAIN subscribers
    /\ subscribers[i].active
    /\ subscribers' =
         [j \in DOMAIN subscribers |->
            IF subscribers[j].active /\ subscribers[j].name = subscribers[i].name
            THEN [subscribers[j] EXCEPT !.active = FALSE,
                                        !.until = Len(invocations)]
            ELSE subscribers[j]]
    /\ UNCHANGED <<transportState, closeFired, userClosed, obs, input,
                   output, invocations>>

\* The closure returned to subscriber i: deregisters that subscriber.
\* until is the number of notifications received before it did.
unsubscribe(i) ==
    /\ i \in DOMAIN subscribers
    /\ subscribers[i].active
    /\ subscribers' = [subscribers EXCEPT ![i].active = FALSE,
                                          ![i].until = Len(invocations)]
    /\ UNCHANGED <<transportState, closeFired, userClosed, obs, input,
                   output, invocations>>

\* The subscribers of the event, registered or not, in registration order.
Handlers_all(name) ==
    SelectSeq([i \in DOMAIN subscribers |-> i],
              LAMBDA i : subscribers[i].name = name)

\* The registered subscribers of the event, in registration order.
Handlers(name) ==
    SelectSeq([i \in DOMAIN subscribers |-> i],
              LAMBDA i : subscribers[i].active /\ subscribers[i].name = name)

\* An inbound notification: every handler registered for its event is
\* invoked with the payload, in registration order; a method of no known
\* event invokes none.
dispatchNotification(method, payload) ==
    /\ Len(invocations) < MaxNotifications
    /\ invocations' =
         Append(invocations,
                [method |-> method, payload |-> payload,
                 invoked |-> [j \in DOMAIN Handlers(EventOf(method)) |->
                               [sub |-> Handlers(EventOf(method))[j],
                                payload |-> payload]]])
    /\ UNCHANGED <<transportState, closeFired, userClosed, obs, input,
                   output, subscribers>>

NotifyNext ==
    \/ \E name \in EventNames : onNotification(name)
    \/ \E i \in 1..MaxSubscribers : unsubscribe(i)
    \/ \E method \in NotificationMethods : \E payload \in Payloads :
          dispatchNotification(method, payload)

NotifySpec == NotifyInit /\ [][NotifyNext]_vars

TypeOK ==
    /\ requestIdCounter \in 0..MaxCalls
    /\ ws \in 0..MaxCalls
    /\ PendingCalls \subseteq Calls
    /\ timers \subseteq Calls

----------------------------------------------------------------------------
\* Properties

UserCloseError == NetworkError("WebSocket connection closed by user via close()")

\* Calls whose envelope was handed to an open socket.
Transmitted == {sent[i].call : i \in DOMAIN sent}

\* C1 - exactly-once settlement: whatever the interleaving of calls,
\* responses (duplicates included), timeouts, send failures, socket events
\* and close(), the resolve/reject functions of a call are invoked at most
\* once in total.
C1_SettledAtMostOnce ==
    \A k \in Calls : Len(settlements[k]) <= 1

\* Two concurrent calls were both transmitted; one was resolved by its
\* response and the other rejected by its timeout.
C1_Witness ==
    \E j, k \in Calls :
        /\ j # k
        /\ {j, k} \subseteq Transmitted
        /\ settlements[j] = <<Resolved(idOf[j])>>
        /\ settlements[k] = <<NetworkError("Request timeout")>>

\* C3 - identifier monotonicity: the first call gets identifier 1 and a
\* call issued later gets a strictly larger identifier than every call
\* issued before it, whatever became of them.
C3_IdMonotonic ==
    /\ callCount >= 1 => idOf[1] = 1
    /\ \A j, k \in 1..callCount : j < k => idOf[j] < idOf[k]

\* The second call was issued after the first one was rejected on a
\* closed transport, and still got a larger identifier.
C3_Witness ==
    /\ callCount >= 2
    /\ idOf[1] = 1
    /\ idOf[2] = 2
    /\ settlements[1] = <<NetworkError("WebSocket is closed.")>>

\* C2 - every call registered in the pending map is eventually settled and
\* removed from it: by its response, by its own timeout, or by teardown
\* (the timers fire: LiveSpec).
C2_PendingEventuallySettled ==
    \A k \in Calls :
        (k \in PendingCalls) ~> (k \notin PendingCalls /\ Len(settlements[k]) = 1)

\* A registered call for which no response ever arrived was ended by its
\* own timeout while the connection stayed open.
C2_Witness ==
    \E k \in Calls :
        /\ k \in Transmitted
        /\ settlements[k] = <<NetworkError("Request timeout")>>
        /\ Phase = "open"

\* No socket of this transport has opened yet.
NeverOpened == \A a \in Calls : promise[a] # "fulfilled"

\* C4 - single-open coordination: at most one open attempt is in flight at
\* any time, and as long as no socket has opened the calls that entered
\* ensureWebSocket all await the same attempt and exactly one socket was
\* constructed for them (none only if the constructor threw).
C4_SingleOpen ==
    /\ Cardinality({a \in Calls : promise[a] = "pending"}) <= 1
    /\ NeverOpened =>
         /\ Cardinality(Constructed) <= 1
         /\ \A k \in Calls : pc[k] = "waiting" =>
                /\ att[k] # 0
                /\ Constructed \subseteq {att[k]}
                /\ Constructed = {} => promise[att[k]] = "rejected"
         /\ \A j, k \in Calls : att[j] # 0 /\ att[k] # 0 => att[j] = att[k]

\* Two calls were issued before the socket opened: one socket, one attempt,
\* both calls awaiting it.
C4_Witness ==
    /\ \A k \in 1..2 : pc[k] = "waiting" /\ att[k] = 1
    /\ readyState[1] = "CONNECTING"
    /\ promise[1] = "pending"
    /\ Len(reactions[1]) = 2
    /\ Constructed = {1}

\* C5 - a transport instance constructs at most one socket in its whole
\* lifetime.
C5_AtMostOneSocket ==
    Cardinality(Constructed) <= 1

\* C6 - teardown completeness: close() with K >= 0 pending calls rejects
\* each of them with the NetworkError of close(), empties the pending map,
\* sets the phase to closed, closes the socket and releases the reference.
C6_TeardownComplete ==
    [][Close =>
         /\ \A k \in PendingCalls : settlements'[k] = <<UserCloseError>>
         /\ pending' = {}
         /\ isClosed' /\ Phase' = "closed"
         /\ ws' = 0
         /\ ws # 0 => readyState'[ws] \notin {"CONNECTING", "OPEN"}]_vars

\* close() was called with two calls pending, and both were rejected by it.
C6_Witness ==
    /\ userClosed = "once"
    /\ \E j, k \in Transmitted :
          /\ j # k
          /\ settlements[j] = <<UserCloseError>>
          /\ settlements[k] = <<UserCloseError>>
    /\ pending = {}

\* C7 - close() is idempotent: a second or later close() changes nothing
\* of the transport and rejects no call again; a close() with no pending
\* call settles nothing; close() can be called in every state.
C7_CloseIdempotent ==
    /\ [](ENABLED Close)
    /\ [][Close =>
            /\ userClosed # "no" => UNCHANGED transportState
            /\ pending = {} => settlements' = settlements]_vars

\* The first close() rejected a pending call, and close() was called again.
C7_Witness ==
    /\ userClosed = "again"
    /\ \E k \in Transmitted : settlements[k] = <<UserCloseError>>

\* C8 - closed is permanent: from the closed phase no step leads to
\* another phase, and the socket reference stays released.
C8_ClosedPermanent ==
    [][Phase = "closed" => Phase' = "closed" /\ ws' = 0]_vars

\* The transport was closed by a socket close event, a call was attempted
\* afterwards, and the transport is still closed.
C8_Witness ==
    /\ Phase = "closed"
    /\ userClosed = "no"
    /\ closeFired # {}
    /\ \E k \in Calls : settlements[k] = <<NetworkError("WebSocket is closed.")>>

\* C9 - a call issued in the closed phase is rejected in the same step with
\* the NetworkError of the closed check; no socket is constructed, nothing
\* is transmitted, no pending entry or timer is created.
C9_CallOnClosedRejected ==
    [][callCount' # callCount /\ Phase = "closed" =>
         /\ settlements'[callCount + 1] = <<NetworkError("WebSocket is closed.")>>
         /\ UNCHANGED <<ws, pending, timers, isClosed, wsReadyPromise,
                        readyState, promise, reactions, mq, sent>>]_vars

\* A first call was transmitted, the user called close(), and the next
\* call was rejected by the closed check.
C9_Witness ==
    /\ userClosed = "once"
    /\ callCount = 2
    /\ 1 \in Transmitted
    /\ settlements[2] = <<NetworkError("WebSocket is closed.")>>
    /\ Constructed = {1}

\* C10 - a socket error event or close event received in the open phase
\* tears the transport down: every pending call is rejected with a
\* NetworkError, the pending map is emptied, the phase becomes closed and
\* the socket reference is released.
C10_SocketEventTeardown ==
    [][(\E s \in Calls : SocketError(s) \/ SocketClose(s)) /\ Phase = "open" =>
         /\ \A k \in PendingCalls :
               /\ Len(settlements'[k]) = 1
               /\ settlements'[k][1].kind = "NetworkError"
               /\ settlements'[k][1].reason \in {"WebSocket error event", "WebSocket closed"}
         /\ pending' = {}
         /\ timers' = {}
         /\ Phase' = "closed"
         /\ ws' = 0]_vars

\* Two calls were pending on the open connection when the socket's error
\* event arrived, and both were rejected by it.
C10_Witness ==
    /\ userClosed = "no"
    /\ Phase = "closed"
    /\ \A k \in 1..2 :
          /\ k \in Transmitted
          /\ settlements[k] = <<NetworkError("WebSocket error event")>>

\* Calls that await the open attempt a: the call that started it and the
\* calls that found it in flight.
Awaiting(a) == {k \in Calls : att[k] = a}

\* C11 - a failed open attempt (the socket constructor threw, or the error
\* event came before the open event) leaves the transport closed, and every
\* call awaiting that attempt, the one that started it and the ones sharing
\* it, is eventually rejected with the attempt's NetworkError and with
\* nothing else.
C11_OpenFailureRejectsWaiters ==
    /\ [](\A a \in Calls : promise[a] = "rejected" => isClosed /\ ws = 0)
    /\ [](\A a \in Calls : \A k \in Awaiting(a) :
            promise[a] = "rejected" /\ pc[k] = "done"
                => settlements[k] = <<NetworkError(RejectReason(a))>>)
    /\ \A a \in Calls : \A k \in Calls :
          (promise[a] = "rejected" /\ k \in Awaiting(a)) ~> (pc[k] = "done")

\* The error event came while socket 1 was connecting, with call 2 sharing
\* the attempt of call 1: both were rejected with the error of the attempt
\* and nothing was transmitted.
C11_Witness ==
    /\ Awaiting(1) = {1, 2}
    /\ readyState[1] = "CLOSED"
    /\ promise[1] = "rejected"
    /\ \A k \in {1, 2} :
          settlements[k] = <<NetworkError("WebSocket error event")>>
    /\ sent = <<>>
    /\ userClosed = "no"
    /\ isClosed

\* The outcomes handleWsMessage settles a call with.
ResponseKinds == {"resolved", "AuthenticationError", "JsonRpcError"}

\* C14 - correlation is by identifier, not by order: a call is only ever
\* resolved with the response that carries the id the call was issued
\* with, and the step in which a response settles a call changes the
\* outcome, the map entry and the timer of no other call, whatever the
\* order in which the calls were issued and the responses arrive.
C14_CorrelatedById ==
    /\ [](\A k \in Calls : \A i \in DOMAIN settlements[k] :
             settlements[k][i].kind = "resolved"
             => settlements[k][i].id = idOf[k])
    /\ [][\A k \in Calls :
            /\ Len(settlements'[k]) > Len(settlements[k])
            /\ settlements'[k][Len(settlements'[k])].kind \in ResponseKinds
            => /\ k \in PendingCalls /\ k \notin PendingCalls'
               /\ \A j \in Calls \ {k} :
                     /\ settlements'[j] = settlements[j]
                     /\ pc'[j] = pc[j]
                     /\ (j \in PendingCalls) = (j \in PendingCalls')
                     /\ (j \in timers) = (j \in timers')]_vars

\* Calls 1 and 2 were transmitted in that order and the response of call 2
\* arrived first: call 2 has the result that came with its id while call 1
\* is still pending.
C14_Witness ==
    /\ Len(sent) = 2 /\ sent[1].call = 1 /\ sent[2].call = 2
    /\ idOf[1] < idOf[2]
    /\ settlements[2] = <<Resolved(idOf[2])>>
    /\ settlements[1] = <<>>
    /\ PendingCalls = {1}

TimeoutError == NetworkError("Request timeout")

\* C12 - when the timer of a call fires, the call is rejected with the
\* timeout NetworkError, its id leaves the pending map and its timer is
\* gone; from then on the call's outcome never changes, and a response
\* carrying its id that arrives afterwards changes neither the pending map,
\* nor a timer, nor the outcome or position of any call.
C12_TimeoutThenLateResponse ==
    /\ [][\A k \in Calls :
            /\ Timeout(k) => /\ settlements'[k] = <<TimeoutError>>
                              /\ idOf[k] \notin PendingIds'
                              /\ k \notin timers'
            /\ settlements[k] = <<TimeoutError>>
               => settlements'[k] = <<TimeoutError>>]_vars
    /\ [](obs.watch = "late" => ~obs.changed)

\* Call 1 was transmitted and timed out while call 2 was pending, and a
\* well-formed response carrying the id of call 1 was handled afterwards:
\* the outcome of call 1 is still the timeout, nothing is pending under its
\* id, and call 2 is still pending.
C12_Witness ==
    /\ obs = [watch |-> "late", seen |-> TRUE, changed |-> FALSE]
    /\ 1 \in Transmitted
    /\ settlements[1] = <<TimeoutError>>
    /\ idOf[1] \notin PendingIds
    /\ 1 \notin timers
    /\ PendingCalls = {2} /\ 2 \in timers

\* C13 - handling a well-formed response whose id is not a key of the
\* pending map (never issued, already settled, timed out, or a string)
\* settles no call and changes no field of the transport: the pending map,
\* the timers and the connection are as they were.
C13_UnknownIdIgnored ==
    obs.watch = "unmatched" => ~obs.changed

\* A well-formed response with an unknown id was handled while a call was
\* pending, and call 2 is still pending with its timer armed, on an open
\* connection.
C13_Witness ==
    /\ obs = [watch |-> "unmatched", seen |-> TRUE, changed |-> FALSE]
    /\ 2 \in PendingCalls /\ 2 \in timers
    /\ settlements[2] = <<>>
    /\ Phase = "open"

C17_TokenIffConfigured ==
    output # <<>>
    => output[1].params = IF input.secret # <<>>
                          THEN <<"token:" \o input.secret[1]>> \o input.params
                          ELSE input.params

\* C17 - "token:" + secret is the first parameter of the envelope, with
\* the caller's arguments behind it unchanged and in order, if and only if
\* config.secret is a non-empty string; with no secret or an empty one
\* params is the caller's arguments exactly.
C17_TokenIffNonEmptySecret ==
    output # <<>>
    => /\ output[1].params =
            IF input.secret \notin {<<>>, <<"">>}
            THEN <<"token:" \o input.secret[1]>> \o input.params
            ELSE input.params
       /\ output[1].method = input.method

\* With secret "s3cr3t" and two arguments the envelope's params are the
\* token and then the two arguments.
C17_Witness ==
    /\ input.secret = <<"s3cr3t">>
    /\ input.params = <<"uri", "token:s3cr3t">>
    /\ output # <<>>
    /\ output[1].params = <<"token:s3cr3t", "uri", "token:s3cr3t">>

\* Subscriber i was registered when the t-th notification was received.
RegisteredAt(i, t) ==
    /\ subscribers[i].since < t
    /\ subscribers[i].active \/ subscribers[i].until >= t

\* The invocations of subscriber i for the t-th notification.
InvocationsOf(i, t) ==
    {j \in DOMAIN invocations[t].invoked : invocations[t].invoked[j].sub = i}

C21_OwnErrorInstance ==
    \A j, k \in Calls :
        j # k /\ output[j] # NoObject /\ output[k] # NoObject
        => output[j] # output[k]

\* C22 - multicall with an empty list returns an empty list and makes no
\* wire call: transport.call is not invoked and no identifier is consumed.
C22_EmptyNoWireCall ==
    input.methods = <<>>
    => /\ callCount = 0 /\ requestIdCounter = 0 /\ sent = <<>>
       /\ output # <<>> => output[1].kind = "resolved" /\ output[1].value = <<>>

\* C23 - for a reply whose slots are one-element arrays or fault objects,
\* multicall resolves with a list of the input's length whose slot i is the
\* unwrapped value or the fault object of slot i of the reply.
C23_ShapePreserved ==
    output # <<>> /\ input.wire.ok
    => /\ output[1].kind = "resolved"
       /\ Len(output[1].value) = Len(input.methods)
       /\ \A i \in 1..Len(input.methods) :
             output[1].value[i] =
                 IF input.wire.result[i].isArray
                 THEN [value |-> input.wire.result[i].items[1]]
                 ELSE input.wire.result[i]

\* The socket schemes.
SocketSchemes == {"ws", "wss"}

\* No socket has been constructed.
NoSocket == ws = 0 /\ \A s \in Calls : readyState[s] = "NONE"

\* The construction parameters the claim calls malformed.
Malformed(config) ==
    \/ config.baseUrl # Undefined /\ ~Parseable(config.baseUrl)
    \/ config.timeout # Undefined
          /\ (config.timeout.num <= 0 \/ ~IsInteger(config.timeout))

\* C24 - an endpoint that does not parse as a URL, or a timeout that is
\* zero, negative or not an integer, makes the construction of the client
\* throw a ConfigurationError, and no socket has been constructed.
C24_MalformedConfigRejected ==
    output # <<>> /\ Malformed(input)
    => /\ output[1].kind = "thrown"
       /\ output[1].class = "ConfigurationError"
       /\ NoSocket

C24_Witness ==
    /\ output # <<>>
    /\ input.baseUrl = Undefined
    /\ input.timeout # Undefined
    /\ input.timeout.num > 0
    /\ ~IsInteger(input.timeout)

\* C25 - no construction yields a client whose endpoint is not a ws:// or
\* wss:// URL, be the endpoint given or the default.
C25_SocketSchemeOnly ==
    output # <<>> /\ output[1].kind = "config"
    => output[1].baseUrl.scheme \in SocketSchemes

\* An argument failing its method's precondition: a GID that is not 16
\* hexadecimal digits, a list of URIs that is empty or holds a text that is
\* no URL.
FailsPrecondition(inv) ==
    IF inv.method = "aria2.addUri"
    THEN \/ ~inv.arg.isArray
         \/ inv.arg.items = <<>>
         \/ \E i \in 1..Len(inv.arg.items) : ~Parseable(inv.arg.items[i])
    ELSE \/ ~inv.arg.isString
         \/ inv.arg.length # GidLength
         \/ inv.arg.classes # {"hex"}

\* The method has run up to its return or its await.
Invoked == output # <<>> \/ callCount > 0

\* C26 - a method invoked with an argument that fails its precondition
\* rejects with a ValidationError, and transport.call is not invoked: no
\* identifier is allocated, no socket constructed, no envelope built.
C26_ValidationBeforeWire ==
    Invoked /\ FailsPrecondition(input)
    => /\ output # <<>>
       /\ output[1].kind = "rejected"
       /\ output[1].class = "ValidationError"
       /\ callCount = 0
       /\ requestIdCounter = 0
       /\ sent = <<>>
       /\ NoSocket

C26_Witness ==
    /\ Invoked
    /\ input.method = "aria2.pause"
    /\ input.arg.isString
    /\ input.arg.length = GidLength + 1
    /\ input.arg.classes = {"hex"}

\* C27 - an operation of the client, multicall included, that rejects does
\* so with an error of the taxonomy (NetworkError, AuthenticationError,
\* JsonRpcError, ValidationError, ConfigurationError), never an untyped one.
C27_TypedOutcome ==
    output # <<>> /\ output[1].kind = "rejected"
    => output[1].class \in Aria2Errors

\* A socket is constructed in this step.
SocketConstructed ==
    \E s \in Calls : readyState[s] = "NONE" /\ readyState'[s] # "NONE"

\* C28 - the connection is opened lazily: a constructed transport has no
\* socket as long as no call was issued, and a socket is only constructed
\* by the step that issues a call.
C28_LazyOpen ==
    [][/\ callCount = 0 => NoSocket
       /\ SocketConstructed => callCount' = callCount + 1]_vars

C28_Witness ==
    /\ callCount = 1
    /\ userClosed = "no"
    /\ ws = 1
    /\ readyState[1] = "CONNECTING"

\* C29 - the pending map holds at most one entry per identifier; each
\* identifier in it was allocated by this transport (1 <= id <= counter) and
\* is that of a call not yet settled. As this holds in every state, a call
\* settled by response, timeout or teardown has left the map in the step
\* that settled it.
C29_PendingMapSound ==
    /\ \A p, q \in pending : p[1] = q[1] => p = q
    /\ \A p \in pending :
          /\ 1 <= p[1] /\ p[1] <= requestIdCounter
          /\ idOf[p[2]] = p[1]
          /\ settlements[p[2]] = <<>>

C29_Witness ==
    \E j, k \in Calls :
        /\ settlements[j] # <<>>
        /\ settlements[j][1].kind = "resolved"
        /\ k \in PendingCalls

\* C30 - the identifiers of the transmitted envelopes strictly increase in
\* the order of transmission.
C30_WireInIdOrder ==
    \A i, j \in 1..Len(sent) : i < j => sent[i].id < sent[j].id

\* Call k was rejected because its send threw.
SendFailed(k) ==
    /\ settlements[k] # <<>>
    /\ settlements[k][1] = NetworkError("WebSocket send failed")

\* C31 - the step in which the send of a call throws rejects that call with
\* a NetworkError, leaves it without timer and without entry in the pending
\* map, and leaves the entries, timers and settlements of all other calls
\* as they were; afterwards its timer never fires: it is not armed again
\* and the call is not settled a second time.
C31_SendFailure ==
    [][\A k \in Calls :
          /\ ~SendFailed(k) /\ SendFailed(k)'
             => /\ k \notin timers'
                /\ k \notin PendingCalls'
                /\ pending' = pending
                /\ timers' = timers
                /\ \A j \in Calls \ {k} : settlements'[j] = settlements[j]
          /\ SendFailed(k)
             => /\ k \notin timers'
                /\ settlements'[k] = settlements[k]]_vars

C31_Witness ==
    \E j, k \in Calls :
        /\ SendFailed(k)
        /\ j \in PendingCalls
        /\ j \in timers

\* The envelopes transmitted for call k.
EnvelopesOf(k) == {i \in DOMAIN sent : sent[i].call = k}

\* C32 - a call transmits at most one envelope, whatever happens to it
\* afterwards (timeout, fault, teardown), and the step that registers it in
\* the pending map while the socket is open transmits exactly one.
C32_OneEnvelopePerCall ==
    [][\A k \in Calls :
          /\ Cardinality(EnvelopesOf(k)') <= 1
          /\ /\ k \notin PendingCalls
             /\ k \in PendingCalls'
             /\ ws # 0
             /\ readyState[ws] = "OPEN"
             => /\ EnvelopesOf(k) = {}
                /\ Cardinality(EnvelopesOf(k)') = 1]_vars

C32_Witness ==
    \E j, k \in Calls :
        /\ settlements[k] # <<>>
        /\ settlements[k][1] = TimeoutError
        /\ Cardinality(EnvelopesOf(k)) = 1
        /\ settlements[j] # <<>>
        /\ settlements[j][1] = UserCloseError
        /\ Cardinality(EnvelopesOf(j)) = 1

\* Call k was rejected by its timer.
TimedOut(k) == settlements[k] # <<>> /\ settlements[k][1] = TimeoutError

\* C33 - the timeout is measured from transmission: a timer is armed only
\* for a registered call, never for one that waits for the connection to
\* open; the step that arms it is the step that executes the send, which
\* on an open socket puts the envelope on the wire; and a call is rejected
\* with the timeout error only from the registered position.
C33_TimeoutFromTransmission ==
    [][\A k \in Calls :
          /\ pc[k] = "waiting" => k \notin timers
          /\ k \notin timers /\ k \in timers'
             => /\ pc[k] = "waiting"
                /\ pc'[k] = "pending"
                /\ readyState[ws] = "OPEN" => k \in Transmitted'
          /\ ~TimedOut(k) /\ TimedOut(k)'
             => pc[k] = "pending" /\ k \in timers]_vars

C33_Witness ==
    \E k \in Calls :
        /\ TimedOut(k)
        /\ att[k] # 0
        /\ k \in Transmitted

\* C34 - no call is left waiting for an open attempt that has ended: once
\* the close event of the attempt's socket has been handled, the attempt's
\* promise is settled, so that the calls awaiting it resume. (When the
\* promise is still pending then, nothing can settle it any more: the socket
\* emits no further event.)
C34_WaitersReleased ==
    \A k \in Calls :
        pc[k] = "waiting" /\ att[k] # 0 /\ att[k] \in closeFired
        => promise[att[k]] # "pending"

\* C35 - whenever the transport is closed the pending map is empty: a
\* teardown empties it, and a call that passed the closed check before the
\* teardown and resumes after it leaves no entry.
C35_ClosedMapEmpty == isClosed => pending = {}

\* The step settles call k by a response, a wire fault or its own timeout.
SettledAlone(k) ==
    /\ Len(settlements'[k]) > Len(settlements[k])
    /\ LET o == settlements'[k][Len(settlements'[k])]
       IN  o.kind \in ResponseKinds \/ o = TimeoutError

\* C36 - a step that settles one call by its response, by a wire fault or
\* by its own timeout leaves every other call as it was - its entry in the
\* pending map, its timer, its outcome - and leaves the connection as it
\* was: socket reference, closed flag, state of the sockets, attempt in
\* flight.
C36_SettleFrame ==
    [][\A k \in Calls :
          SettledAlone(k)
          => /\ \A j \in Calls \ {k} :
                   /\ settlements'[j] = settlements[j]
                   /\ pc'[j] = pc[j]
                   /\ (j \in timers') = (j \in timers)
                   /\ \A id \in MsgIds : (<<id, j>> \in pending') = (<<id, j>> \in pending)
             /\ Phase' = Phase
             /\ ws' = ws
             /\ isClosed' = isClosed
             /\ readyState' = readyState
             /\ wsReadyPromise' = wsReadyPromise]_vars

C36_Witness ==
    \E j, k \in Calls :
        /\ TimedOut(k)
        /\ j \in PendingCalls
        /\ j \in timers
        /\ Phase = "open"

\* C37 - a timer is armed for exactly the calls that have an entry in the
\* pending map, and never for a call that is settled: whatever settles a
\* call (response, send failure, timeout, teardown) takes its timer away in
\* the same step, so that no timer fires for a settled call.
C37_TimerIffPending ==
    /\ timers = PendingCalls
    /\ \A k \in timers : settlements[k] = <<>>

\* close() rejected a transmitted call, and no timer is left.
C37_Witness ==
    /\ userClosed = "once"
    /\ timers = {}
    /\ \E k \in Transmitted : settlements[k] = <<UserCloseError>>

\* The batch handed to transport.call: the first parameter of the envelope.
Batch == sent[1].params[1]

\* The entries of the input that are not system.multicall.
Bundled == SelectSeq(input.methods, LAMBDA x : x.method # "system.multicall")

\* C38 - the batch multicall transmits holds, in input order, every entry
\* of the input whose method is not system.multicall and no other, each
\* with its params, or an empty list when the entry has none.
C38_BatchFiltered ==
    sent # <<>>
    => /\ Len(Batch) = Len(Bundled)
       /\ \A i \in 1..Len(Bundled) :
             /\ Batch[i].methodName = Bundled[i].method
             /\ Batch[i].params = IF "params" \in DOMAIN Bundled[i]
                                  THEN Bundled[i].params ELSE <<>>

====
